---- MODULE Spec2Model ----
(***************************************************************************)
(* A model of backend/src/main.py: the /chat endpoint, the TTS streaming   *)
(* bridge (elevenlabs_stream with its send_text and receive_data tasks and *)
(* the asyncio queue between them), the sentence-safe text_chunker and the *)
(* word timing reconstruction calculate_word_start_times.                  *)
(*                                                                         *)
(* Strings are sequences of one-character strings.  A JSON object is a     *)
(* record; a key that is absent (or falsy) is a field that is not in the   *)
(* record's DOMAIN.                                                        *)
(***************************************************************************)
EXTENDS Integers, Sequences, FiniteSets, TLC

VARIABLES
    hasMessages,            \* chat: the request body carries a "messages" field
    genPc,                  \* position of the elevenlabs_stream generator
    wsState,                \* the TTS websocket: "unopened", "open", "closed"
    sent,                   \* messages written to the TTS websocket, in order
    inbox,                  \* messages the TTS service sent, not yet received
    modelPc,                \* the model completion stream / the chunker's input
    fragments,              \* text fragments text_chunker has consumed
    buffer,                 \* text_chunker: buffer
    chunks,                 \* chunks text_chunker has yielded
    sendPc,                 \* position of the send_text task
    recvPc,                 \* position of the receive_data task
    cumulative_run_time,    \* receive_data: cumulative_run_time
    received_final_chunk,   \* receive_data: received_final_chunk
    received,               \* messages websocket.recv() has returned, in order
    queue,                  \* the asyncio.Queue between receive_data and the generator
    enqueued,               \* every item put on the queue, in order
    yielded                 \* the SSE events the generator has yielded, in order

vars == <<hasMessages, genPc, wsState, sent, inbox, modelPc, fragments, buffer,
          chunks, sendPc, recvPc, cumulative_run_time, received_final_chunk,
          received, queue, enqueued, yielded>>

chunkerVars == <<modelPc, fragments, buffer, chunks>>
bridgeVars == <<hasMessages, genPc, wsState, sent, inbox, sendPc, recvPc,
                cumulative_run_time, received_final_chunk, received, queue,
                enqueued, yielded>>

(***************************************************************************)
(* Bounds of the model.                                                    *)
(***************************************************************************)
MaxDeltas == 2      \* text deltas the model stream delivers in one request
MaxMsgs == 2        \* messages the TTS service sends in one request
MaxFrags == 3       \* fragments fed to text_chunker on its own
MaxFragLen == 2     \* characters in one such fragment
MaxChars == 2       \* entries of chars, charStartTimesMs, charDurationsMs

(***************************************************************************)
(* Sequence helpers.                                                       *)
(***************************************************************************)
Last(s) == s[Len(s)]

Front(s) == SubSeq(s, 1, Len(s) - 1)

RECURSIVE Flatten(_)
Flatten(ss) == IF ss = <<>> THEN <<>> ELSE Head(ss) \o Flatten(Tail(ss))

RECURSIVE SeqsUpTo(_, _)
SeqsUpTo(S, n) ==
    IF n = 0 THEN {<<>>}
    ELSE LET shorter == SeqsUpTo(S, n - 1)
         IN  shorter \cup {Append(s, x) : s \in {t \in shorter : Len(t) = n - 1}, x \in S}

IsPrefix(s, t) == Len(s) <= Len(t) /\ SubSeq(t, 1, Len(s)) = s

(***************************************************************************)
(* text_chunker (main.py 159-183).                                         *)
(***************************************************************************)
\* "emdash" stands for the em dash character U+2014 of the source.
splitters == {".", ",", "?", "!", ";", ":", "emdash", "-", "(", ")", "[", "]", "}", " "}

endswith(s, chars) == s # <<>> /\ Last(s) \in chars

startswith(s, chars) == s # <<>> /\ s[1] \in chars

\* The mutant of text_chunker_step that forgets to drop text[0] from the
\* remainder after emitting it.
text_chunker_step_keeps_first(buf, text) ==
    IF endswith(buf, splitters)
    THEN [out |-> <<buf \o <<" ">>>>, buffer |-> text]
    ELSE IF startswith(text, splitters)
         THEN [out |-> <<buf \o <<text[1]>> \o <<" ">>>>, buffer |-> text]
         ELSE [out |-> <<>>, buffer |-> buf \o text]

\* The mutant of text_chunker_step that cuts before the splitter that starts
\* the fragment in place of after it.
text_chunker_step_cuts_before_splitter(buf, text) ==
    IF endswith(buf, splitters)
    THEN [out |-> <<buf \o <<" ">>>>, buffer |-> text]
    ELSE IF startswith(text, splitters)
         THEN [out |-> <<buf \o <<" ">>>>, buffer |-> text]
         ELSE [out |-> <<>>, buffer |-> buf \o text]

\* One iteration of the loop over text_generator: the chunks yielded (none
\* or one) and the buffer the iteration leaves.
text_chunker_step(buf, text) ==
    IF endswith(buf, splitters)
    THEN [out |-> <<buf \o <<" ">>>>, buffer |-> text]
    ELSE IF startswith(text, splitters)
         THEN [out |-> <<buf \o <<text[1]>> \o <<" ">>>>, buffer |-> Tail(text)]
         ELSE [out |-> <<>>, buffer |-> buf \o text]

\* The mutant of text_chunker_end that forgets the rest of the buffer.
text_chunker_end_forgets_rest(buf) == <<>>

\* After the loop: the rest of the buffer, if any.
text_chunker_end(buf) == IF buf # <<>> THEN <<buf \o <<" ">>>> ELSE <<>>

\* text_chunker consumes one fragment.
ChunkerFeed(text) ==
    LET r == text_chunker_step(buffer, text)
    IN  /\ fragments' = Append(fragments, text)
        /\ buffer' = r.buffer
        /\ chunks' = chunks \o r.out

\* text_chunker sees its input exhausted.
ChunkerFinish ==
    /\ fragments' = fragments
    /\ buffer' = buffer
    /\ chunks' = chunks \o text_chunker_end(buffer)

(***************************************************************************)
(* calculate_word_start_times (main.py 185-236).  An alignment record is a *)
(* record with chars, charStartTimesMs and, optionally, charDurationsMs.   *)
(***************************************************************************)
Min(a, b) == IF a <= b THEN a ELSE b

RECURSIVE sum(_)
sum(s) == IF s = <<>> THEN 0 ELSE Head(s) + sum(Tail(s))

\* list(zip(a, b)): pairs up to the shorter of the two.
zip(a, b) == [i \in 1..Min(Len(a), Len(b)) |-> <<a[i], b[i]>>]

\* word_start_time is None (<<>>) or a time t (<<t>>).
NoTime == <<>>

\* The mutant of ScanChars that ends a word at a comma or an exclamation
\* mark as it does at a space.
RECURSIVE ScanChars_drops_punctuation(_, _, _)
ScanChars_drops_punctuation(zipped, i, st) ==
    IF i > Len(zipped) THEN st
    ELSE LET char == zipped[i][1]
             time == zipped[i][2]
             next ==
                 IF char \in {" ", ",", "!"}
                 THEN IF st.word # <<>>
                      THEN [words |-> Append(st.words, st.word),
                            word_start_times |->
                                Append(st.word_start_times, st.word_start_time),
                            word |-> <<>>,
                            word_start_time |-> NoTime]
                      ELSE st
                 ELSE [words |-> st.words,
                       word_start_times |-> st.word_start_times,
                       word |-> Append(st.word, char),
                       word_start_time |->
                           IF st.word = <<>> THEN <<time>> ELSE st.word_start_time]
         IN  ScanChars_drops_punctuation(zipped, i + 1, next)

\* The mutant of ScanChars that records the time of every character of a
\* word, so that the word gets the time of its last character.
RECURSIVE ScanChars_last_char_time(_, _, _)
ScanChars_last_char_time(zipped, i, st) ==
    IF i > Len(zipped) THEN st
    ELSE LET char == zipped[i][1]
             time == zipped[i][2]
             next ==
                 IF char = " "
                 THEN IF st.word # <<>>
                      THEN [words |-> Append(st.words, st.word),
                            word_start_times |->
                                Append(st.word_start_times, st.word_start_time),
                            word |-> <<>>,
                            word_start_time |-> NoTime]
                      ELSE st
                 ELSE [words |-> st.words,
                       word_start_times |-> st.word_start_times,
                       word |-> Append(st.word, char),
                       word_start_time |-> <<time>>]
         IN  ScanChars_last_char_time(zipped, i + 1, next)

\* The loop over zipped_chars_times from index i on; st holds words,
\* word_start_times, word and word_start_time.
RECURSIVE ScanChars(_, _, _)
ScanChars(zipped, i, st) ==
    IF i > Len(zipped) THEN st
    ELSE LET char == zipped[i][1]
             time == zipped[i][2]
             next ==
                 IF char = " "
                 THEN IF st.word # <<>>
                      THEN [words |-> Append(st.words, st.word),
                            word_start_times |->
                                Append(st.word_start_times, st.word_start_time),
                            word |-> <<>>,
                            word_start_time |-> NoTime]
                      ELSE st
                 ELSE [words |-> st.words,
                       word_start_times |-> st.word_start_times,
                       word |-> Append(st.word, char),
                       word_start_time |->
                           IF st.word = <<>> THEN <<time>> ELSE st.word_start_time]
         IN  ScanChars(zipped, i + 1, next)

\* The mutant of total_duration that takes the 100 ms buffer off.
total_duration_minus_buffer(alignment_chunk, adjusted_char_start_times) ==
    IF /\ "charDurationsMs" \in DOMAIN alignment_chunk
       /\ alignment_chunk.charDurationsMs # <<>>
    THEN sum(alignment_chunk.charDurationsMs)
    ELSE IF adjusted_char_start_times # <<>>
         THEN Last(adjusted_char_start_times) - adjusted_char_start_times[1] - 100
         ELSE 0

\* The mutant of total_duration that never looks at charDurationsMs.
total_duration_ignores_durations(alignment_chunk, adjusted_char_start_times) ==
    IF adjusted_char_start_times # <<>>
    THEN Last(adjusted_char_start_times) - adjusted_char_start_times[1] + 100
    ELSE 0

\* Total duration of the chunk (main.py 224-231).
total_duration(alignment_chunk, adjusted_char_start_times) ==
    IF /\ "charDurationsMs" \in DOMAIN alignment_chunk
       /\ alignment_chunk.charDurationsMs # <<>>
    THEN sum(alignment_chunk.charDurationsMs)
    ELSE IF adjusted_char_start_times # <<>>
         THEN Last(adjusted_char_start_times) - adjusted_char_start_times[1] + 100
         ELSE 0

\* The alignment record has the keys the function subscripts; without them
\* it raises KeyError.
WellFormed(alignment_chunk) ==
    {"chars", "charStartTimesMs"} \subseteq DOMAIN alignment_chunk

\* The mutant of calculate_word_start_times that does not add
\* cumulative_run_time to the character start times.
calculate_word_start_times_no_offset(alignment_chunk, crt) ==
    LET adjusted_char_start_times ==
            [i \in 1..Len(alignment_chunk.charStartTimesMs) |->
                alignment_chunk.charStartTimesMs[i]]
        zipped_chars_times == zip(alignment_chunk.chars, adjusted_char_start_times)
        scanned == ScanChars(zipped_chars_times, 1,
                             [words |-> <<>>, word_start_times |-> <<>>,
                              word |-> <<>>, word_start_time |-> NoTime])
        final == IF scanned.word # <<>>
                 THEN [words |-> Append(scanned.words, scanned.word),
                       word_start_times |->
                           Append(scanned.word_start_times, scanned.word_start_time)]
                 ELSE [words |-> scanned.words,
                       word_start_times |-> scanned.word_start_times]
    IN  [words |-> final.words,
         word_start_times |-> [i \in 1..Len(final.word_start_times) |->
                                  final.word_start_times[i][1]],
         cumulative_run_time |->
             crt + total_duration(alignment_chunk, adjusted_char_start_times)]

calculate_word_start_times(alignment_chunk, crt) ==
    LET adjusted_char_start_times ==
            [i \in 1..Len(alignment_chunk.charStartTimesMs) |->
                alignment_chunk.charStartTimesMs[i] + crt]
        zipped_chars_times == zip(alignment_chunk.chars, adjusted_char_start_times)
        scanned == ScanChars(zipped_chars_times, 1,
                             [words |-> <<>>, word_start_times |-> <<>>,
                              word |-> <<>>, word_start_time |-> NoTime])
        final == IF scanned.word # <<>>
                 THEN [words |-> Append(scanned.words, scanned.word),
                       word_start_times |->
                           Append(scanned.word_start_times, scanned.word_start_time)]
                 ELSE [words |-> scanned.words,
                       word_start_times |-> scanned.word_start_times]
    IN  [words |-> final.words,
         word_start_times |-> [i \in 1..Len(final.word_start_times) |->
                                  final.word_start_times[i][1]],
         cumulative_run_time |->
             crt + total_duration(alignment_chunk, adjusted_char_start_times)]

(***************************************************************************)
(* The messages of the TTS websocket and the items of the queue.           *)
(***************************************************************************)
\* main.py 103-107, 114, 116
InitMessage == [text |-> <<" ">>, voice_settings |-> TRUE, xi_api_key |-> TRUE]

TextMessage(text) == [text |-> text]

FlushMessage == [text |-> <<" ">>, flush |-> TRUE]

\* queue.put(None)
None == [type |-> "None"]

AudioEvent(audio_data) == [type |-> "audio", data |-> audio_data]

WordTimesEvent(words, word_start_times) ==
    [type |-> "word_times", words |-> words, wordStartTimesMs |-> word_start_times]

\* data.get("audio"), data.get("alignment"), data.get('isFinal') are truthy
HasAudio(data) == "audio" \in DOMAIN data

HasAlignment(data) == "alignment" \in DOMAIN data

IsFinal(data) == "isFinal" \in DOMAIN data /\ data.isFinal

\* Alignment records the TTS service sends in the bridge model: a valid one
\* and one that lacks charStartTimesMs.
AlignmentHi == [chars |-> <<"h", "i">>, charStartTimesMs |-> <<0, 100>>]

AlignmentBad == [chars |-> <<"h">>]

\* The messages the TTS service may send as its n-th message; the audio
\* payload n stands for the n-th base64 blob.
ServiceMessages(n) ==
    { [audio |-> n],
      [audio |-> n, alignment |-> AlignmentHi],
      [isFinal |-> FALSE],
      [audio |-> n, alignment |-> AlignmentHi, isFinal |-> TRUE],
      [audio |-> n, alignment |-> AlignmentBad] }

\* The text deltas of the model stream in the bridge model; <<>> is a delta
\* without content.
Deltas == {<<>>, <<"a">>, <<",">>}

(***************************************************************************)
(* The request: chat (main.py 49-85) and the elevenlabs_stream generator   *)
(* (main.py 87-157).                                                       *)
(***************************************************************************)
Init ==
    /\ hasMessages \in BOOLEAN
    /\ genPc = "new"
    /\ wsState = "unopened"
    /\ sent = <<>>
    /\ inbox = <<>>
    /\ modelPc = "unopened"
    /\ fragments = <<>>
    /\ buffer = <<>>
    /\ chunks = <<>>
    /\ sendPc = "none"
    /\ recvPc = "none"
    /\ cumulative_run_time = 0
    /\ received_final_chunk = FALSE
    /\ received = <<>>
    /\ queue = <<>>
    /\ enqueued = <<>>
    /\ yielded = <<>>

\* chat: body.get('messages') is taken as it is, None included, and the
\* StreamingResponse over elevenlabs_stream(...) is returned.
Chat ==
    /\ genPc = "new"
    /\ genPc' = "committed"
    /\ UNCHANGED <<hasMessages, wsState, sent, inbox, chunkerVars, sendPc, recvPc,
                   cumulative_run_time, received_final_chunk, received, queue,
                   enqueued, yielded>>

\* async with websockets.connect(uri) as websocket
Connect ==
    /\ genPc = "committed"
    /\ genPc' = "init"
    /\ wsState' = "open"
    /\ UNCHANGED <<hasMessages, sent, inbox, chunkerVars, sendPc, recvPc,
                   cumulative_run_time, received_final_chunk, received, queue,
                   enqueued, yielded>>

\* websockets.connect raises: the generator ends with the error.
ConnectFail ==
    /\ genPc = "committed"
    /\ genPc' = "error"
    /\ UNCHANGED <<hasMessages, wsState, sent, inbox, chunkerVars, sendPc, recvPc,
                   cumulative_run_time, received_final_chunk, received, queue,
                   enqueued, yielded>>

\* The initial message, then the queue and the two tasks are created and the
\* generator waits on queue.get().  A closed connection makes send raise.
SendInit ==
    /\ genPc = "init"
    /\ IF wsState = "open"
       THEN /\ sent' = Append(sent, InitMessage)
            /\ sendPc' = "pull"
            /\ recvPc' = "recv"
            /\ genPc' = "get"
       ELSE /\ genPc' = "error"
            /\ UNCHANGED <<sent, sendPc, recvPc>>
    /\ UNCHANGED <<hasMessages, wsState, inbox, chunkerVars, cumulative_run_time,
                   received_final_chunk, received, queue, enqueued, yielded>>

\* The mutant of Get that takes the newest item of the queue.
Get_newest_first ==
    /\ genPc = "get"
    /\ queue # <<>>
    /\ LET data == Last(queue)
       IN  /\ queue' = Front(queue)
           /\ IF data = None
              THEN genPc' = "joinSend" /\ UNCHANGED yielded
              ELSE genPc' = "yield" /\ yielded' = Append(yielded, data)
    /\ UNCHANGED <<hasMessages, wsState, sent, inbox, chunkerVars, sendPc, recvPc,
                   cumulative_run_time, received_final_chunk, received, enqueued>>

\* data = await queue.get(); None breaks the loop, anything else is yielded.
Get ==
    /\ genPc = "get"
    /\ queue # <<>>
    /\ LET data == Head(queue)
       IN  /\ queue' = Tail(queue)
           /\ IF data = None
              THEN genPc' = "joinSend" /\ UNCHANGED yielded
              ELSE genPc' = "yield" /\ yielded' = Append(yielded, data)
    /\ UNCHANGED <<hasMessages, wsState, sent, inbox, chunkerVars, sendPc, recvPc,
                   cumulative_run_time, received_final_chunk, received, enqueued>>

\* The response asks the generator for its next item.
Resume ==
    /\ genPc = "yield"
    /\ genPc' = "get"
    /\ UNCHANGED <<hasMessages, wsState, sent, inbox, chunkerVars, sendPc, recvPc,
                   cumulative_run_time, received_final_chunk, received, queue,
                   enqueued, yielded>>

\* await send_task: returns when the task is done, re-raises what it raised;
\* the exception leaves the async with block, which closes the websocket.
JoinSend ==
    /\ genPc = "joinSend"
    /\ sendPc \in {"done", "failed"}
    /\ IF sendPc = "failed"
       THEN genPc' = "error" /\ wsState' = "closed"
       ELSE genPc' = "joinRecv" /\ UNCHANGED wsState
    /\ UNCHANGED <<hasMessages, sent, inbox, chunkerVars, sendPc, recvPc,
                   cumulative_run_time, received_final_chunk, received, queue,
                   enqueued, yielded>>

\* await receive_task, then the end of the async with block.
JoinRecv ==
    /\ genPc = "joinRecv"
    /\ recvPc \in {"done", "failed"}
    /\ genPc' = IF recvPc = "failed" THEN "error" ELSE "ended"
    /\ wsState' = "closed"
    /\ UNCHANGED <<hasMessages, sent, inbox, chunkerVars, sendPc, recvPc,
                   cumulative_run_time, received_final_chunk, received, queue,
                   enqueued, yielded>>

\* The client goes away while the generator is suspended: the exception
\* thrown into it (CancelledError, GeneratorExit) leaves the async with
\* block, which closes the websocket.  Nothing cancels the two tasks.
Abort ==
    /\ genPc \in {"get", "yield", "joinSend", "joinRecv"}
    /\ genPc' = "aborted"
    /\ wsState' = "closed"
    /\ UNCHANGED <<hasMessages, sent, inbox, chunkerVars, sendPc, recvPc,
                   cumulative_run_time, received_final_chunk, received, queue,
                   enqueued, yielded>>

(***************************************************************************)
(* send_text (main.py 112-116), pulling from text_chunker (159-183), which *)
(* pulls from chat_response_stream (65-79).                                *)
(***************************************************************************)
\* chat_client.chat.completions.create(messages=messages, stream=True): the
\* first pull of send_text opens the model stream; without messages the
\* call raises and the exception ends send_text.
ModelOpen ==
    /\ sendPc = "pull"
    /\ modelPc = "unopened"
    /\ IF hasMessages
       THEN modelPc' = "open" /\ UNCHANGED sendPc
       ELSE modelPc' = "failed" /\ sendPc' = "failed"
    /\ UNCHANGED <<hasMessages, genPc, wsState, sent, inbox, fragments, buffer,
                   chunks, recvPc, cumulative_run_time, received_final_chunk,
                   received, queue, enqueued, yielded>>

\* The model stream delivers a delta: one without content is dropped, a
\* fragment goes through text_chunker, and a chunk it yields is what
\* send_text sends next.
ModelDelta ==
    /\ sendPc = "pull"
    /\ modelPc = "open"
    /\ Len(fragments) < MaxDeltas
    /\ \E content \in Deltas :
          IF content = <<>>
          THEN UNCHANGED <<fragments, buffer, chunks, sendPc>>
          ELSE /\ ChunkerFeed(content)
               /\ sendPc' = IF text_chunker_step(buffer, content).out # <<>>
                            THEN "send" ELSE "pull"
    /\ UNCHANGED <<hasMessages, genPc, wsState, sent, inbox, modelPc, recvPc,
                   cumulative_run_time, received_final_chunk, received, queue,
                   enqueued, yielded>>

\* The model stream ends: text_chunker yields what is left of its buffer,
\* if anything, and ends.
ModelEnd ==
    /\ sendPc = "pull"
    /\ modelPc = "open"
    /\ modelPc' = "exhausted"
    /\ ChunkerFinish
    /\ sendPc' = IF text_chunker_end(buffer) # <<>> THEN "send" ELSE "flush"
    /\ UNCHANGED <<hasMessages, genPc, wsState, sent, inbox, recvPc,
                   cumulative_run_time, received_final_chunk, received, queue,
                   enqueued, yielded>>

\* The model stream raises (the connection to the provider drops): the
\* exception goes through text_chunker and ends send_text.
ModelFail ==
    /\ sendPc = "pull"
    /\ modelPc = "open"
    /\ modelPc' = "failed"
    /\ sendPc' = "failed"
    /\ UNCHANGED <<hasMessages, genPc, wsState, sent, inbox, fragments, buffer,
                   chunks, recvPc, cumulative_run_time, received_final_chunk,
                   received, queue, enqueued, yielded>>

\* The mutant of SendChunk that sends the first chunk again in place of the
\* chunk just yielded.
SendChunk_resends_first ==
    /\ sendPc = "send"
    /\ IF wsState = "open"
       THEN /\ sent' = Append(sent, TextMessage(chunks[1]))
            /\ sendPc' = IF modelPc = "exhausted" THEN "flush" ELSE "pull"
       ELSE /\ sendPc' = "failed"
            /\ UNCHANGED sent
    /\ UNCHANGED <<hasMessages, genPc, wsState, inbox, chunkerVars, recvPc,
                   cumulative_run_time, received_final_chunk, received, queue,
                   enqueued, yielded>>

\* await websocket.send(json.dumps({"text": text})); on a closed connection
\* send raises ConnectionClosed, which ends send_text.
SendChunk ==
    /\ sendPc = "send"
    /\ IF wsState = "open"
       THEN /\ sent' = Append(sent, TextMessage(Last(chunks)))
            /\ sendPc' = IF modelPc = "exhausted" THEN "flush" ELSE "pull"
       ELSE /\ sendPc' = "failed"
            /\ UNCHANGED sent
    /\ UNCHANGED <<hasMessages, genPc, wsState, inbox, chunkerVars, recvPc,
                   cumulative_run_time, received_final_chunk, received, queue,
                   enqueued, yielded>>

\* await websocket.send(json.dumps({"text": " ", "flush": True}))
SendFlush ==
    /\ sendPc = "flush"
    /\ IF wsState = "open"
       THEN /\ sent' = Append(sent, FlushMessage)
            /\ sendPc' = "done"
       ELSE /\ sendPc' = "failed"
            /\ UNCHANGED sent
    /\ UNCHANGED <<hasMessages, genPc, wsState, inbox, chunkerVars, recvPc,
                   cumulative_run_time, received_final_chunk, received, queue,
                   enqueued, yielded>>

\* The mutant of ProcessMessage that adds 100 ms to cumulative_run_time for
\* a message without alignment.
ProcessMessage_counts_every_message(data, crt) ==
    LET audio == IF HasAudio(data) THEN <<AudioEvent(data.audio)>> ELSE <<>>
    IN  IF HasAlignment(data) /\ ~WellFormed(data.alignment)
        THEN [puts |-> audio, crt |-> crt, final |-> FALSE, raised |-> TRUE]
        ELSE IF HasAlignment(data)
             THEN LET r == calculate_word_start_times(data.alignment, crt)
                  IN  [puts |-> Append(audio,
                                       WordTimesEvent(r.words, r.word_start_times)),
                       crt |-> r.cumulative_run_time,
                       final |-> IsFinal(data), raised |-> FALSE]
             ELSE [puts |-> audio, crt |-> crt + 100,
                   final |-> IsFinal(data), raised |-> FALSE]

(***************************************************************************)
(* receive_data (main.py 119-142).                                         *)
(***************************************************************************)
\* The body of the try block for one decoded message: the items it puts on
\* the queue, the cumulative_run_time it leaves, whether it saw isFinal and
\* whether it raised (KeyError in calculate_word_start_times).
ProcessMessage(data, crt) ==
    LET audio == IF HasAudio(data) THEN <<AudioEvent(data.audio)>> ELSE <<>>
    IN  IF HasAlignment(data) /\ ~WellFormed(data.alignment)
        THEN [puts |-> audio, crt |-> crt, final |-> FALSE, raised |-> TRUE]
        ELSE IF HasAlignment(data)
             THEN LET r == calculate_word_start_times(data.alignment, crt)
                  IN  [puts |-> Append(audio,
                                       WordTimesEvent(r.words, r.word_start_times)),
                       crt |-> r.cumulative_run_time,
                       final |-> IsFinal(data), raised |-> FALSE]
             ELSE [puts |-> audio, crt |-> crt,
                   final |-> IsFinal(data), raised |-> FALSE]

\* The mutant of ReceiveMessage that puts None on the queue for a message
\* with isFinal and goes on receiving.
ReceiveMessage_stays_in_loop ==
    /\ recvPc = "recv"
    /\ inbox # <<>>
    /\ LET p == ProcessMessage(Head(inbox), cumulative_run_time)
           puts == IF p.final /\ ~p.raised THEN Append(p.puts, None) ELSE p.puts
       IN  /\ queue' = queue \o puts
           /\ enqueued' = enqueued \o puts
           /\ cumulative_run_time' = p.crt
           /\ received_final_chunk' = p.final
           /\ recvPc' = IF p.raised THEN "failed" ELSE "recv"
    /\ received' = Append(received, Head(inbox))
    /\ inbox' = Tail(inbox)
    /\ UNCHANGED <<hasMessages, genPc, wsState, sent, chunkerVars, sendPc, yielded>>

\* websocket.recv() returns the next message; the message is processed, and
\* with isFinal the loop ends and None is put on the queue.
ReceiveMessage ==
    /\ recvPc = "recv"
    /\ inbox # <<>>
    /\ LET p == ProcessMessage(Head(inbox), cumulative_run_time)
           puts == IF p.final /\ ~p.raised THEN Append(p.puts, None) ELSE p.puts
       IN  /\ queue' = queue \o puts
           /\ enqueued' = enqueued \o puts
           /\ cumulative_run_time' = p.crt
           /\ received_final_chunk' = p.final
           /\ recvPc' = IF p.raised THEN "failed"
                        ELSE IF p.final THEN "done" ELSE "recv"
    /\ received' = Append(received, Head(inbox))
    /\ inbox' = Tail(inbox)
    /\ UNCHANGED <<hasMessages, genPc, wsState, sent, chunkerVars, sendPc, yielded>>

\* The mutant of ReceiveClosed that lets ConnectionClosed end the task.
ReceiveClosed_propagates ==
    /\ recvPc = "recv"
    /\ inbox = <<>>
    /\ wsState = "closed"
    /\ recvPc' = "failed"
    /\ UNCHANGED <<hasMessages, genPc, wsState, sent, inbox, chunkerVars, sendPc,
                   cumulative_run_time, received_final_chunk, received, queue,
                   enqueued, yielded>>

\* websocket.recv() raises ConnectionClosed: break, then None is put on the
\* queue.
ReceiveClosed ==
    /\ recvPc = "recv"
    /\ inbox = <<>>
    /\ wsState = "closed"
    /\ recvPc' = "done"
    /\ queue' = Append(queue, None)
    /\ enqueued' = Append(enqueued, None)
    /\ UNCHANGED <<hasMessages, genPc, wsState, sent, inbox, chunkerVars, sendPc,
                   cumulative_run_time, received_final_chunk, received, yielded>>

(***************************************************************************)
(* The TTS service, at the other end of the websocket.                     *)
(***************************************************************************)
ServiceSent == received \o inbox

FinalSent == \E i \in 1..Len(ServiceSent) : IsFinal(ServiceSent[i])

\* The service sends a message.
ServiceSend ==
    /\ wsState = "open"
    /\ Len(ServiceSent) < MaxMsgs
    /\ \E m \in ServiceMessages(Len(ServiceSent) + 1) : inbox' = Append(inbox, m)
    /\ UNCHANGED <<hasMessages, genPc, wsState, sent, chunkerVars, sendPc, recvPc,
                   cumulative_run_time, received_final_chunk, received, queue,
                   enqueued, yielded>>

\* The service answers the flush message with its final message.
ServiceFinal ==
    /\ wsState = "open"
    /\ sent # <<>> /\ Last(sent) = FlushMessage
    /\ ~FinalSent
    /\ inbox' = Append(inbox, [isFinal |-> TRUE])
    /\ UNCHANGED <<hasMessages, genPc, wsState, sent, chunkerVars, sendPc, recvPc,
                   cumulative_run_time, received_final_chunk, received, queue,
                   enqueued, yielded>>

\* The service closes the connection, or the connection drops.
ServiceClose ==
    /\ wsState = "open"
    /\ wsState' = "closed"
    /\ UNCHANGED <<hasMessages, genPc, sent, inbox, chunkerVars, sendPc, recvPc,
                   cumulative_run_time, received_final_chunk, received, queue,
                   enqueued, yielded>>

Next ==
    \/ Chat
    \/ Connect
    \/ ConnectFail
    \/ SendInit
    \/ Get
    \/ Resume
    \/ JoinSend
    \/ JoinRecv
    \/ Abort
    \/ ModelOpen
    \/ ModelDelta
    \/ ModelEnd
    \/ ModelFail
    \/ SendChunk
    \/ SendFlush
    \/ ReceiveMessage
    \/ ReceiveClosed
    \/ ServiceSend
    \/ ServiceFinal
    \/ ServiceClose

Spec == Init /\ [][Next]_vars

\* ReceiveMessage can take a step exactly when receive_data waits in recv()
\* and a message has arrived; the step always lengthens received.
ReceiveMessageEnabled == recvPc = "recv" /\ inbox # <<>>

\* The event loop runs every task that can run, the response keeps asking
\* for the next item, a model stream that is open ends, and the service
\* answers a flush.  Nothing obliges the service to send anything else or to
\* close, the model stream to fail, or the client to go away.  The weak
\* fairness of ReceiveMessage is written out, WF_vars(ReceiveMessage) being
\* []<>~ENABLED <<ReceiveMessage>>_vars \/ []<><<ReceiveMessage>>_vars.
Fairness ==
    /\ WF_vars(Chat)
    /\ WF_vars(Connect)
    /\ WF_vars(SendInit)
    /\ WF_vars(Get)
    /\ WF_vars(Resume)
    /\ WF_vars(JoinSend)
    /\ WF_vars(JoinRecv)
    /\ WF_vars(ModelOpen)
    /\ WF_vars(ModelEnd)
    /\ WF_vars(SendChunk)
    /\ WF_vars(SendFlush)
    /\ ([]<>~ReceiveMessageEnabled \/ []<><<ReceiveMessage>>_vars)
    /\ WF_vars(ReceiveClosed)
    /\ WF_vars(ServiceFinal)

FairSpec == Init /\ [][Next]_vars /\ Fairness

(***************************************************************************)
(* text_chunker on its own, over every fragment sequence within the bounds.*)
(***************************************************************************)
Alphabet == {"a", " "}

Fragments == SeqsUpTo(Alphabet, MaxFragLen)

ChunkerInit ==
    /\ hasMessages = TRUE
    /\ genPc = "new"
    /\ wsState = "unopened"
    /\ sent = <<>>
    /\ inbox = <<>>
    /\ modelPc = "open"
    /\ fragments = <<>>
    /\ buffer = <<>>
    /\ chunks = <<>>
    /\ sendPc = "none"
    /\ recvPc = "none"
    /\ cumulative_run_time = 0
    /\ received_final_chunk = FALSE
    /\ received = <<>>
    /\ queue = <<>>
    /\ enqueued = <<>>
    /\ yielded = <<>>

\* async for text in text_generator: one more fragment
ChunkerNextFragment ==
    /\ modelPc = "open"
    /\ Len(fragments) < MaxFrags
    /\ \E text \in Fragments : ChunkerFeed(text)
    /\ UNCHANGED <<modelPc, bridgeVars>>

\* text_generator is exhausted
ChunkerExhausted ==
    /\ modelPc = "open"
    /\ modelPc' = "exhausted"
    /\ ChunkerFinish
    /\ UNCHANGED bridgeVars

ChunkerNext == ChunkerNextFragment \/ ChunkerExhausted

ChunkerSpec == ChunkerInit /\ [][ChunkerNext]_vars

(***************************************************************************)
(* Properties.                                                             *)
(***************************************************************************)
\* The items of a queue history that are events, the sentinel left out.
Events(items) == SelectSeq(items, LAMBDA item : item # None)

\* The events the messages msgs put on the queue when they are processed in
\* this order, starting from cumulative run time crt.
RECURSIVE EventsOf(_, _)
EventsOf(msgs, crt) ==
    IF msgs = <<>> THEN <<>>
    ELSE LET p == ProcessMessage(Head(msgs), crt)
         IN  p.puts \o (IF p.raised \/ p.final THEN <<>>
                        ELSE EventsOf(Tail(msgs), p.crt))

Ended == {"ended", "error", "aborted"}

TasksCreated == sendPc # "none"

\* The generator has taken the sentinel from the queue: it has taken one
\* item more than it has yielded.
SentinelObserved == Len(enqueued) - Len(queue) = Len(yielded) + 1

SentinelEnqueued == \E i \in 1..Len(enqueued) : enqueued[i] = None

\* C1: whatever the interleaving of send_text and receive_data, the events
\* the generator has yielded, followed by the events still in the queue, are
\* exactly the events receive_data has put on the queue, in that order, which
\* is the order in which their messages arrived; once the generator has taken
\* the sentinel, every event has been yielded.
C1_BridgeFifo ==
    /\ yielded \o Events(queue) = Events(enqueued)
    /\ Events(enqueued) = EventsOf(received, 0)
    /\ SentinelObserved => yielded = Events(enqueued)

\* C1 witness: two events yielded and two more waiting in the queue while
\* send_text is still at work.
C1_Witness ==
    /\ Len(yielded) >= 2
    /\ Len(Events(queue)) >= 2
    /\ sendPc \in {"pull", "send"}

\* C2: whenever the response stream of a request whose tasks were created
\* has ended (normally, by an error or by a client abort), the sentinel has
\* been observed, the queue is empty and both tasks have completed.
C2_EndedMeansDrainedAndJoined ==
    (genPc \in Ended /\ TasksCreated) =>
        /\ SentinelObserved
        /\ queue = <<>>
        /\ sendPc \in {"done", "failed"}
        /\ recvPc \in {"done", "failed"}

\* C3: receive_data puts the sentinel on the queue at most once and as the
\* last item; it is there exactly when the loop has been left, which happens
\* only on a message with isFinal or on a closed connection; no message is
\* received after one with isFinal, and the events of that message are on
\* the queue before the sentinel.
C3_SentinelOnceAtLoopExit ==
    /\ \A i \in 1..Len(enqueued) : enqueued[i] = None => i = Len(enqueued)
    /\ SentinelEnqueued <=> recvPc = "done"
    /\ recvPc = "done" =>
          \/ received_final_chunk
          \/ wsState = "closed" /\ inbox = <<>>
    /\ \A i \in 1..Len(received) :
          IsFinal(received[i]) => i = Len(received) /\ received_final_chunk
    /\ received_final_chunk =>
          /\ received # <<>> /\ IsFinal(Last(received))
          /\ enqueued = Append(EventsOf(received, 0), None)

\* C3 witness: a message with audio, alignment and isFinal was processed,
\* its two events precede the sentinel, and a later message of the service
\* stays unreceived.
C3_Witness ==
    /\ received_final_chunk
    /\ HasAudio(Last(received))
    /\ Len(enqueued) >= 3
    /\ Last(enqueued) = None
    /\ inbox # <<>>

\* What the websocket must have been sent once send_text is done with the
\* chunks text_chunker yielded.
ExpectedSent ==
    <<InitMessage>> \o [i \in 1..Len(chunks) |-> TextMessage(chunks[i])]
                    \o <<FlushMessage>>

\* C4: the messages written to the websocket are the initial message, then
\* one text message per chunk in the order text_chunker yielded them, each
\* sent once and as soon as it is yielded, then one flush message, sent only
\* once the chunks are exhausted; nothing follows the flush.
C4_SendOrder ==
    /\ IsPrefix(sent, ExpectedSent)
    /\ TasksCreated => sent # <<>> /\ sent[1] = InitMessage
    /\ sendPc \in {"pull", "flush"} => Len(sent) = 1 + Len(chunks)
    /\ sendPc = "send" => Len(sent) = Len(chunks)
    /\ Len(sent) = Len(chunks) + 2 => modelPc = "exhausted" /\ sendPc = "done"
    /\ sendPc = "done" => sent = ExpectedSent

\* C4 witness: send_text is done after two chunks.
C4_Witness ==
    /\ sendPc = "done"
    /\ Len(chunks) >= 2
    /\ Len(sent) = 4

\* C5: once send_text has failed on a request that has messages (a send on
\* the websocket or the model stream raised), the response stream eventually
\* ends (unless receive_data has failed as well).
C5_SenderFailureEndsStream ==
    (hasMessages /\ sendPc = "failed") ~> (genPc \in Ended \/ recvPc = "failed")

\* receive_data left its loop on ConnectionClosed.
ClosedExit == recvPc = "done" /\ ~received_final_chunk

\* A message whose alignment makes calculate_word_start_times raise.
Malformed(data) == HasAlignment(data) /\ ~WellFormed(data.alignment)

\* C6: a ConnectionClosed raised by recv is not propagated: receive_data
\* fails only on a malformed message; when it left its loop on a closed
\* connection the sentinel is the last item it put on the queue, after the
\* events of every message it received, and once the generator has ended
\* every one of these events has been yielded.
C6_ClosedIsGraceful ==
    /\ recvPc = "failed" => received # <<>> /\ Malformed(Last(received))
    /\ ClosedExit =>
          /\ enqueued = Append(EventsOf(received, 0), None)
          /\ genPc \in {"ended", "error"} => yielded = EventsOf(received, 0)

\* C6 witness: the connection closed after a message with two events, and
\* the generator ended with both events yielded.
C6_Witness ==
    /\ ClosedExit
    /\ genPc \in {"ended", "error"}
    /\ Len(yielded) >= 2

\* C7: after a client abort the websocket is closed and neither task is
\* left able to take a step.
C7_AbortLeavesNoTaskRunnable ==
    genPc = "aborted" =>
        /\ wsState = "closed"
        /\ sendPc \notin {"pull", "send", "flush"}
        /\ recvPc # "recv"

\* C8: when the request has ended, on whatever path, the websocket and the
\* model stream are closed.
C8_ConnectionsClosedAtEnd ==
    genPc \in Ended => wsState # "open" /\ modelPc # "open"

\* C9: for a request without messages no response stream is committed, no
\* websocket is opened and no initial message is sent.
C9_MissingMessagesRejected ==
    ~hasMessages => genPc = "new" /\ wsState = "unopened" /\ sent = <<>>

\* The chunk without the space text_chunker appended to it.
StripTrailingSpace(chunk) == Front(chunk)

\* C10: every chunk ends with the appended space, and the chunks without
\* it, concatenated in order (followed, while text_chunker is still running,
\* by its buffer), are the concatenation of the fragments consumed.
C10_ChunkerRoundTrip ==
    /\ \A i \in 1..Len(chunks) : chunks[i] # <<>> /\ Last(chunks[i]) = " "
    /\ Flatten([i \in 1..Len(chunks) |-> StripTrailingSpace(chunks[i])])
           \o (IF modelPc = "exhausted" THEN <<>> ELSE buffer)
       = Flatten(fragments)

\* C10 witness: three fragments, one of two characters that starts with a
\* splitter, gave at least two chunks.
C10_Witness ==
    /\ modelPc = "exhausted"
    /\ Len(fragments) = MaxFrags
    /\ Len(chunks) >= 2
    /\ \E i \in 1..Len(fragments) :
          Len(fragments[i]) = 2 /\ startswith(fragments[i], splitters)
                                /\ fragments[i][2] \notin splitters

\* text_chunker was fed exactly one fragment and has ended.
OneFragmentRun == modelPc = "exhausted" /\ Len(fragments) = 1

\* C11 as claimed: a text fed as one single fragment gives exactly one
\* chunk, the text followed by a space.
C11_OneFragmentOneChunk ==
    OneFragmentRun => chunks = <<fragments[1] \o <<" ">>>>

\* C11 as amended: a non-empty text that is one character long or does not
\* start with a splitter, fed as one single fragment, gives exactly one
\* chunk, the text followed by a space; a longer text that starts with a
\* splitter gives two chunks, the splitter and the rest, and the empty
\* text gives none.
C11_OneFragmentChunks ==
    OneFragmentRun =>
        LET text == fragments[1]
        IN  IF text = <<>> THEN chunks = <<>>
            ELSE IF Len(text) = 1 \/ ~startswith(text, splitters)
                 THEN chunks = <<text \o <<" ">>>>
                 ELSE chunks = << <<text[1], " ">>, Tail(text) \o <<" ">> >>

\* C11 witness: a text of two characters that starts with a non-splitter
\* came out as one chunk.
C11_Witness ==
    /\ OneFragmentRun
    /\ Len(fragments[1]) = 2
    /\ ~startswith(fragments[1], splitters)
    /\ Len(chunks) = 1

\* C12: every chunk text_chunker has yielded, except the last one of a
\* finished run, ends with a splitter once its appended space is removed.
C12_ChunksEndAtSplitters ==
    \A i \in 1..Len(chunks) :
        (i < Len(chunks) \/ modelPc # "exhausted") =>
            endswith(StripTrailingSpace(chunks[i]), splitters)

\* C12 witness: a finished run of three chunks whose last chunk ends in a
\* non-splitter.
C12_Witness ==
    /\ modelPc = "exhausted"
    /\ Len(chunks) = 3
    /\ ~endswith(StripTrailingSpace(chunks[3]), splitters)

(***************************************************************************)
(* calculate_word_start_times on its own: receive_data processes one       *)
(* message whose alignment record and whose cumulative_run_time are drawn  *)
(* from bounded sets.                                                      *)
(***************************************************************************)
StartTimeSamples == {0, 100, 300}

DurationSamples == {-50, 0, 100}

CrtSamples == {0, 250}

\* The record of the example of the Reconstructor: "hi there".
AlignmentHiThere ==
    [chars |-> <<"h", "i", " ", "t", "h", "e", "r", "e">>,
     charStartTimesMs |-> <<0, 100, 200, 300, 400, 500, 600, 700>>]

AlignmentRecords ==
    {[chars |-> c, charStartTimesMs |-> t] :
        c \in SeqsUpTo({"a", " "}, MaxChars),
        t \in SeqsUpTo(StartTimeSamples, MaxChars)}
    \cup
    {[chars |-> c, charStartTimesMs |-> t, charDurationsMs |-> d] :
        c \in SeqsUpTo({"a", " "}, MaxChars),
        t \in SeqsUpTo(StartTimeSamples, MaxChars),
        d \in SeqsUpTo(DurationSamples, MaxChars)}
    \cup {AlignmentHiThere}

\* receive_data waits in recv() with one message on its way.
ReconstructorInit ==
    /\ hasMessages = TRUE
    /\ genPc = "get"
    /\ wsState = "open"
    /\ sent = <<InitMessage>>
    /\ inbox \in {<<[alignment |-> a]>> : a \in AlignmentRecords}
    /\ modelPc = "unopened"
    /\ fragments = <<>>
    /\ buffer = <<>>
    /\ chunks = <<>>
    /\ sendPc = "pull"
    /\ recvPc = "recv"
    /\ cumulative_run_time \in CrtSamples
    /\ received_final_chunk = FALSE
    /\ received = <<>>
    /\ queue = <<>>
    /\ enqueued = <<>>
    /\ yielded = <<>>

ReconstructorNext == ReceiveMessage

ReconstructorSpec == ReconstructorInit /\ [][ReconstructorNext]_vars

\* The step in which receive_data receives a message with a well-formed
\* alignment record, Head(inbox).alignment.
ReceivesAlignment ==
    /\ recvPc = "recv"
    /\ inbox # <<>>
    /\ received' = Append(received, Head(inbox))
    /\ HasAlignment(Head(inbox))
    /\ WellFormed(Head(inbox).alignment)

HasDurations(a) == "charDurationsMs" \in DOMAIN a /\ Len(a.charDurationsMs) > 0

DurationsNonNegative(a) ==
    "charDurationsMs" \in DOMAIN a =>
        \A i \in 1..Len(a.charDurationsMs) : a.charDurationsMs[i] >= 0

\* Without durations, the start times do not end more than 100 ms before
\* they begin.
StartTimesSpanOk(a) ==
    (~HasDurations(a) /\ Len(a.charStartTimesMs) > 0) =>
        Last(a.charStartTimesMs) >= a.charStartTimesMs[1] - 100

\* C13 as claimed: for a record whose charDurationsMs, when present, are
\* non-negative, and any cumulative_run_time, the cumulative_run_time that
\* receive_data takes from calculate_word_start_times is not smaller than
\* the one it passed in.
C13_RunTimeNeverDecreases ==
    [][(ReceivesAlignment /\ DurationsNonNegative(Head(inbox).alignment))
          => cumulative_run_time' >= cumulative_run_time]_vars

\* C13 as amended: the same for a record whose charStartTimesMs, when
\* charDurationsMs is absent or empty, do not end more than 100 ms before
\* they begin (as when they are non-decreasing).
C13_RunTimeNeverDecreasesOnOrderedTimes ==
    [][(/\ ReceivesAlignment
        /\ DurationsNonNegative(Head(inbox).alignment)
        /\ StartTimesSpanOk(Head(inbox).alignment))
          => cumulative_run_time' >= cumulative_run_time]_vars

\* C13 witness: a record without durations whose start times end exactly
\* 100 ms before they begin was processed and left cumulative_run_time as
\* it was.
C13_Witness ==
    /\ received # <<>>
    /\ ~HasDurations(received[1].alignment)
    /\ received[1].alignment.charStartTimesMs = <<100, 0>>
    /\ cumulative_run_time = 250

RECURSIVE SumFirst(_, _)
SumFirst(s, n) == IF n = 0 THEN 0 ELSE SumFirst(s, n - 1) + s[n]

\* The chunk duration of record a when the last - first + 100 rule applies
\* from minStarts start times on.
ChunkDuration(a, minStarts) ==
    IF HasDurations(a)
    THEN SumFirst(a.charDurationsMs, Len(a.charDurationsMs))
    ELSE IF Len(a.charStartTimesMs) >= minStarts /\ Len(a.charStartTimesMs) > 0
         THEN a.charStartTimesMs[Len(a.charStartTimesMs)] - a.charStartTimesMs[1] + 100
         ELSE 0

\* C15 as claimed: the duration added to cumulative_run_time is the sum of
\* charDurationsMs when present and non-empty, otherwise last - first + 100
\* of the start times when there are at least two, otherwise 0.
C15_DurationFromTwoStartTimes ==
    [][ReceivesAlignment =>
          cumulative_run_time' =
              cumulative_run_time + ChunkDuration(Head(inbox).alignment, 2)]_vars

\* C15 as amended: ... otherwise last - first + 100 of the start times
\* when there is at least one (so a single start time adds 100), and 0
\* only when there is none.
C15_DurationFromOneStartTime ==
    [][ReceivesAlignment =>
          cumulative_run_time' =
              cumulative_run_time + ChunkDuration(Head(inbox).alignment, 1)]_vars

\* C15 witness: a record with one start time and no durations was
\* processed from cumulative_run_time 250 and left it at 350.
C15_Witness ==
    /\ received # <<>>
    /\ ~HasDurations(received[1].alignment)
    /\ Len(received[1].alignment.charStartTimesMs) = 1
    /\ cumulative_run_time = 350

\* The indexes from i on at which a word of chars starts.
RECURSIVE WordStartsFrom(_, _)
WordStartsFrom(chars, i) ==
    IF i > Len(chars) THEN <<>>
    ELSE (IF chars[i] # " " /\ (i = 1 \/ chars[i - 1] = " ") THEN <<i>> ELSE <<>>)
             \o WordStartsFrom(chars, i + 1)

\* The maximal run of non-space characters that starts at index i.
WordAt(chars, i) ==
    LET j == CHOOSE k \in i..Len(chars) :
                 /\ \A m \in i..k : chars[m] # " "
                 /\ (k = Len(chars) \/ chars[k + 1] = " ")
    IN  SubSeq(chars, i, j)

\* C16: for a record with as many chars as charStartTimesMs, the words of
\* the word_times event are the maximal runs of non-space characters in
\* order, and each start time is the charStartTimesMs entry of the word's
\* first character plus the cumulative_run_time passed in; "hi there" with
\* start times 0..700 from 0 gives hi, there at 0, 300 and 800.
C16_WordsAndStartTimes ==
    [][(/\ ReceivesAlignment
        /\ Len(Head(inbox).alignment.chars)
              = Len(Head(inbox).alignment.charStartTimesMs))
          => LET a == Head(inbox).alignment
                 starts == WordStartsFrom(a.chars, 1)
                 event == Last(enqueued')
             IN  /\ Len(enqueued') = Len(enqueued) + 1
                 /\ event.type = "word_times"
                 /\ Len(event.words) = Len(event.wordStartTimesMs)
                 /\ event.words = [k \in 1..Len(starts) |-> WordAt(a.chars, starts[k])]
                 /\ event.wordStartTimesMs =
                        [k \in 1..Len(starts) |->
                            a.charStartTimesMs[starts[k]] + cumulative_run_time]
                 /\ (a = AlignmentHiThere /\ cumulative_run_time = 0) =>
                        /\ event.words = << <<"h", "i">>, <<"t", "h", "e", "r", "e">> >>
                        /\ event.wordStartTimesMs = <<0, 300>>
                        /\ cumulative_run_time' = 800]_vars

\* C16 witness: "hi there" was processed from cumulative_run_time 0.
C16_Witness ==
    /\ received = <<[alignment |-> AlignmentHiThere]>>
    /\ enqueued = <<WordTimesEvent(<< <<"h", "i">>, <<"t", "h", "e", "r", "e">> >>,
                                   <<0, 300>>)>>
    /\ cumulative_run_time = 800

(***************************************************************************)
(* Termination of the bridge and the receive path's frame.                 *)
(***************************************************************************)
\* Something the assumption of C17 excludes has happened: the request has
\* no messages, the connection failed or closed before the bridge ended,
\* the model stream failed, or the client went away.
Disturbed ==
    \/ ~hasMessages
    \/ genPc \in {"error", "aborted"}
    \/ modelPc = "failed"
    \/ sendPc = "failed"
    \/ (wsState = "closed" /\ genPc # "ended")

BridgeEnded ==
    /\ genPc = "ended"
    /\ modelPc = "exhausted"
    /\ sent = ExpectedSent
    /\ SentinelObserved
    /\ sendPc = "done"
    /\ recvPc = "done"

\* C17: when the model stream ends, no connection error occurs and the
\* service answers the flush with isFinal, then with the tasks and the
\* consumer scheduled fairly the bridge eventually ends with every chunk
\* and the flush sent, the sentinel consumed and both tasks completed.
C17_BridgeEventuallyEnds == <>(Disturbed \/ BridgeEnded)

\* The same, for runs in which receive_data does not fail either.
BridgeEndsUnlessReceiverFails == <>(Disturbed \/ recvPc = "failed" \/ BridgeEnded)

\* C18: whenever receive_data has terminated, by isFinal, by a closed
\* connection or by an error raised on a malformed message, it has put the
\* sentinel None on the queue.
C18_TerminatedReceiverPutSentinel ==
    recvPc \in {"done", "failed"} => SentinelEnqueued

\* The step in which receive_data receives the message Head(inbox).
ReceivesMessage ==
    /\ recvPc = "recv"
    /\ inbox # <<>>
    /\ received' = Append(received, Head(inbox))

\* A step of send_text or of the model stream it consumes.
SenderStep == sendPc' # sendPc \/ chunkerVars' # chunkerVars

\* C19: a message with neither audio nor alignment nor isFinal is ignored:
\* receive_data puts nothing on the queue for it, leaves cumulative_run_time
\* as it is and stays in its loop; a message without alignment leaves
\* cumulative_run_time as it is; no step of send_text changes
\* cumulative_run_time.
C19_OnlyAlignmentMovesRunTime ==
    [][/\ (/\ ReceivesMessage
           /\ ~HasAudio(Head(inbox))
           /\ ~HasAlignment(Head(inbox))
           /\ ~IsFinal(Head(inbox)))
             => /\ enqueued' = enqueued
                /\ queue' = queue
                /\ cumulative_run_time' = cumulative_run_time
                /\ recvPc' = "recv"
       /\ (ReceivesMessage /\ ~HasAlignment(Head(inbox)))
             => cumulative_run_time' = cumulative_run_time
       /\ SenderStep => cumulative_run_time' = cumulative_run_time]_vars

\* C19 witness: after a message with an alignment record, a message with
\* neither audio nor alignment nor isFinal was received; the one event pair
\* of the first message is all that was queued, and receive_data is still
\* in its loop.
C19_Witness ==
    /\ Len(received) = 2
    /\ HasAlignment(received[1])
    /\ received[2] = [isFinal |-> FALSE]
    /\ Len(enqueued) = 2
    /\ cumulative_run_time = 200
    /\ recvPc = "recv"

(***************************************************************************)
(* receive_data over a sequence of alignment records: the service sends    *)
(* up to MaxMsgs messages that carry one record each.                      *)
(***************************************************************************)
\* Records that start at 0 with and without durations, a record that
\* starts late, one whose durations end before its start time, one whose
\* start times decrease, one without a word and one of negative duration.
AlignmentSamples ==
    {AlignmentHi,
     AlignmentHiThere,
     [chars |-> <<"a", " ", "b">>, charStartTimesMs |-> <<0, 50, 90>>,
      charDurationsMs |-> <<50, 40, 10>>],
     [chars |-> <<"a">>, charStartTimesMs |-> <<500>>],
     [chars |-> <<"a">>, charStartTimesMs |-> <<200>>, charDurationsMs |-> <<0>>],
     [chars |-> <<"a", " ", "b">>, charStartTimesMs |-> <<300, 200, 0>>],
     [chars |-> <<" ">>, charStartTimesMs |-> <<0>>, charDurationsMs |-> <<100>>],
     [chars |-> <<"a">>, charStartTimesMs |-> <<0>>, charDurationsMs |-> <<-50>>]}

\* receive_data waits in recv() at the start of a request.
ReceiverInit ==
    /\ hasMessages = TRUE
    /\ genPc = "get"
    /\ wsState = "open"
    /\ sent = <<InitMessage>>
    /\ inbox = <<>>
    /\ modelPc = "unopened"
    /\ fragments = <<>>
    /\ buffer = <<>>
    /\ chunks = <<>>
    /\ sendPc = "pull"
    /\ recvPc = "recv"
    /\ cumulative_run_time = 0
    /\ received_final_chunk = FALSE
    /\ received = <<>>
    /\ queue = <<>>
    /\ enqueued = <<>>
    /\ yielded = <<>>

\* The service sends a message with an alignment record.
AlignmentArrives ==
    /\ wsState = "open"
    /\ Len(ServiceSent) < MaxMsgs
    /\ \E a \in AlignmentSamples : inbox' = Append(inbox, [alignment |-> a])
    /\ UNCHANGED <<hasMessages, genPc, wsState, sent, chunkerVars, sendPc, recvPc,
                   cumulative_run_time, received_final_chunk, received, queue,
                   enqueued, yielded>>

ReceiverNext == AlignmentArrives \/ ReceiveMessage

ReceiverSpec == ReceiverInit /\ [][ReceiverNext]_vars

\* The word start times of the word_times events among evs, in order.
RECURSIVE WordTimesOf(_)
WordTimesOf(evs) ==
    IF evs = <<>> THEN <<>>
    ELSE (IF Head(evs).type = "word_times" THEN Head(evs).wordStartTimesMs ELSE <<>>)
             \o WordTimesOf(Tail(evs))

NonDecreasing(s) == \A i \in 1..Len(s) : \A j \in i..Len(s) : s[i] <= s[j]

\* The condition of C20 on a record: charStartTimesMs non-negative and
\* non-decreasing, charDurationsMs non-negative when present.
OrderedRecord(a) ==
    /\ \A i \in 1..Len(a.charStartTimesMs) : a.charStartTimesMs[i] >= 0
    /\ NonDecreasing(a.charStartTimesMs)
    /\ DurationsNonNegative(a)

\* No start time of the record lies beyond the duration computed for it.
DurationCoversStartTimes(a) ==
    \A i \in 1..Len(a.charStartTimesMs) : a.charStartTimesMs[i] <= ChunkDuration(a, 1)

\* C20 as claimed: when every record received has non-negative,
\* non-decreasing charStartTimesMs and non-negative charDurationsMs, the
\* word start times of the successive word_times events are non-decreasing.
C20_WordTimesNonDecreasing ==
    (\A i \in 1..Len(received) : OrderedRecord(received[i].alignment))
        => NonDecreasing(WordTimesOf(enqueued))

\* C20 as amended: the same when, in addition, no start time of a record
\* exceeds the chunk duration computed for that record (the sum of its
\* charDurationsMs when present and non-empty, else last - first + 100).
C20_WordTimesNonDecreasingWhenCovered ==
    (\A i \in 1..Len(received) :
        /\ OrderedRecord(received[i].alignment)
        /\ DurationCoversStartTimes(received[i].alignment))
        => NonDecreasing(WordTimesOf(enqueued))

\* C20 witness: "hi there" and then "hi" were received; the word of the
\* second event starts at 800, after the words of the first.
C20_Witness ==
    /\ received = <<[alignment |-> AlignmentHiThere], [alignment |-> AlignmentHi]>>
    /\ WordTimesOf(enqueued) = <<0, 300, 800>>

(***************************************************************************)
(* The end-to-end scenario: the model streams "Hello, world!" in three     *)
(* tokens, the service answers every text message with audio and the       *)
(* alignment of its characters, and answers the flush with isFinal.        *)
(***************************************************************************)
HelloText == <<"H", "e", "l", "l", "o", ",", " ", "w", "o", "r", "l", "d", "!">>

\* Every way of cutting the text into three non-empty tokens.
HelloCuts ==
    {c \in (1..(Len(HelloText) - 2)) \X (2..(Len(HelloText) - 1)) : c[1] < c[2]}

HelloTokenizations ==
    {<<SubSeq(HelloText, 1, c[1]), SubSeq(HelloText, c[1] + 1, c[2]),
       SubSeq(HelloText, c[2] + 1, Len(HelloText))>> : c \in HelloCuts}

HelloInit == Init /\ hasMessages = TRUE

\* The model stream delivers the next token of the reply.
HelloDelta ==
    /\ sendPc = "pull"
    /\ modelPc = "open"
    /\ \E tok \in HelloTokenizations :
          /\ IsPrefix(fragments, tok)
          /\ Len(fragments) < Len(tok)
          /\ LET content == tok[Len(fragments) + 1]
             IN  /\ ChunkerFeed(content)
                 /\ sendPc' = IF text_chunker_step(buffer, content).out # <<>>
                              THEN "send" ELSE "pull"
    /\ UNCHANGED <<hasMessages, genPc, wsState, sent, inbox, modelPc, recvPc,
                   cumulative_run_time, received_final_chunk, received, queue,
                   enqueued, yielded>>

\* The model stream ends after the third token.
HelloEnd == fragments \in HelloTokenizations /\ ModelEnd

\* The messages of the service that answer a text message.
Answers == {i \in 1..Len(ServiceSent) : HasAlignment(ServiceSent[i])}

\* The text messages sent after the initial message.
TextsSent == {i \in 2..Len(sent) : sent[i] # FlushMessage}

\* The service answers the next text message with its audio and the
\* alignment of its characters, 100 ms apiece.
HelloAnswer ==
    /\ wsState = "open"
    /\ ~FinalSent
    /\ Cardinality(Answers) < Cardinality(TextsSent)
    /\ LET k == Cardinality(Answers) + 1
           text == sent[k + 1].text
       IN  inbox' = Append(inbox,
                           [audio |-> k,
                            alignment |->
                                [chars |-> text,
                                 charStartTimesMs |->
                                     [i \in 1..Len(text) |-> (i - 1) * 100]]])
    /\ UNCHANGED <<hasMessages, genPc, wsState, sent, chunkerVars, sendPc, recvPc,
                   cumulative_run_time, received_final_chunk, received, queue,
                   enqueued, yielded>>

\* The service answers the flush once it has answered every text message.
HelloFinal == Cardinality(Answers) = Cardinality(TextsSent) /\ ServiceFinal

HelloNext ==
    \/ Chat
    \/ Connect
    \/ SendInit
    \/ Get
    \/ Resume
    \/ JoinSend
    \/ JoinRecv
    \/ ModelOpen
    \/ HelloDelta
    \/ HelloEnd
    \/ SendChunk
    \/ SendFlush
    \/ ReceiveMessage
    \/ HelloAnswer
    \/ HelloFinal

HelloSpec == HelloInit /\ [][HelloNext]_vars

RECURSIVE IsSubsequence(_, _)
IsSubsequence(s, t) ==
    IF s = <<>> THEN TRUE
    ELSE IF t = <<>> THEN FALSE
    ELSE IF Head(s) = Head(t) THEN IsSubsequence(Tail(s), Tail(t))
    ELSE IsSubsequence(s, Tail(t))

\* The words of the reply without and with their punctuation.
HelloWordsBare == << <<"H", "e", "l", "l", "o">>, <<"w", "o", "r", "l", "d">> >>

HelloWordsWhole ==
    << <<"H", "e", "l", "l", "o", ",">>, <<"w", "o", "r", "l", "d", "!">> >>

\* The words of the word_times events among evs, in order.
RECURSIVE WordsOf(_)
WordsOf(evs) ==
    IF evs = <<>> THEN <<>>
    ELSE (IF Head(evs).type = "word_times" THEN Head(evs).words ELSE <<>>)
             \o WordsOf(Tail(evs))

\* The response of the scenario carries words taken from expected: every
\* word_times event has words that are a subsequence of expected and
\* non-decreasing start times, and a response that has ended has at least
\* one audio event and at least one word_times event.
HelloResponse(expected) ==
    /\ \A i \in 1..Len(yielded) :
          yielded[i].type = "word_times" =>
              /\ IsSubsequence(yielded[i].words, expected)
              /\ NonDecreasing(yielded[i].wordStartTimesMs)
    /\ genPc = "ended" =>
          /\ \E i \in 1..Len(yielded) : yielded[i].type = "audio"
          /\ \E i \in 1..Len(yielded) : yielded[i].type = "word_times"

\* C14 as claimed: for the reply "Hello, world!" answered with the
\* alignment of its characters, at least one audio and one word_times event
\* are emitted, and the words of every word_times event are a subsequence
\* of Hello, world (punctuation removed) with non-decreasing start times.
C14_HelloWorldWithoutPunctuation == HelloResponse(HelloWordsBare)

\* C14 as amended: ... the words of every word_times event are a
\* subsequence of "Hello,", "world!" (words are cut at spaces only, and
\* keep their punctuation) with non-decreasing start times; over the whole
\* response the words are exactly these two, at non-decreasing times.
C14_HelloWorldWithPunctuation ==
    /\ HelloResponse(HelloWordsWhole)
    /\ genPc = "ended" =>
          /\ WordsOf(yielded) = HelloWordsWhole
          /\ NonDecreasing(WordTimesOf(yielded))

\* C14 witness: the reply came as Hello / , / world! and the response
\* ended after three chunks, the last of which gave the word "world!".
C14_Witness ==
    /\ genPc = "ended"
    /\ Len(chunks) = 3
    /\ \E i \in 1..Len(yielded) :
          /\ yielded[i].type = "word_times"
          /\ yielded[i].words = << <<"w", "o", "r", "l", "d", "!">> >>

====
